---- MODULE Spec2Model ----
(***************************************************************************)
(* Model of the validator service's payload inspection middleware          *)
(* (src/validator_service/main.py) and of the incident / telemetry         *)
(* recorder (src/validator_service/incident_logger.py).                    *)
(*                                                                         *)
(* Every request is one asyncio task.  The code between two awaits runs    *)
(* atomically, so every action below is one such segment of a handler.     *)
(* Strings are TLA+ strings; f-strings, join, upper, startswith and "in"   *)
(* are computed character by character.                                    *)
(***************************************************************************)
EXTENDS Integers, Sequences, FiniteSets, TLC

VARIABLES environ, req, incidents, requests, ttps, suricata_logs, handled, boot, usage

vars == <<environ, req, incidents, requests, ttps, suricata_logs, handled, boot, usage>>

\* the variables of the operations that no request task runs
aux == <<handled, boot, usage>>

(***************************************************************************)
(* Bounds                                                                  *)
(***************************************************************************)
\* the number of requests sent; their tasks run concurrently and share only
\* the tables
MaxReqs == 2

Reqs == 1..MaxReqs

(***************************************************************************)
(* String helpers (Python str operations)                                  *)
(***************************************************************************)
LowerAlphabet == "abcdefghijklmnopqrstuvwxyz"

UpperAlphabet == "ABCDEFGHIJKLMNOPQRSTUVWXYZ"

\* str.upper() of one character
UpperChar(c) ==
    IF \E i \in 1..Len(LowerAlphabet) : SubSeq(LowerAlphabet, i, i) = c
    THEN LET i == CHOOSE j \in 1..Len(LowerAlphabet) : SubSeq(LowerAlphabet, j, j) = c
         IN  SubSeq(UpperAlphabet, i, i)
    ELSE c

RECURSIVE Upper(_)
\* str.upper()
Upper(s) ==
    IF Len(s) = 0 THEN ""
    ELSE UpperChar(SubSeq(s, 1, 1)) \o Upper(SubSeq(s, 2, Len(s)))

\* sub in s
Contains(s, sub) ==
    \E i \in 1..(Len(s) - Len(sub) + 1) : SubSeq(s, i, i + Len(sub) - 1) = sub

\* s.startswith(prefix)
StartsWith(s, prefix) ==
    /\ Len(s) >= Len(prefix)
    /\ SubSeq(s, 1, Len(prefix)) = prefix

RECURSIVE Join(_, _)
\* sep.join(names)
Join(sep, names) ==
    IF Len(names) = 0 THEN ""
    ELSE IF Len(names) = 1 THEN names[1]
    ELSE names[1] \o sep \o Join(sep, Tail(names))

(***************************************************************************)
(* Configuration read at import time                                       *)
(***************************************************************************)
\* os.getenv(name, default) over the process environment
getenv(name, default) ==
    IF \E kv \in environ : kv[1] = name
    THEN (CHOOSE kv \in environ : kv[1] = name)[2]
    ELSE default

ADMIN_KEY == getenv("ADMIN_KEY", "supersecretadminkey")

RAG_SERVICE_URL == getenv("RAG_SERVICE_URL", "http://rag-service:8000/analyze-payload")

\* the environments the process may be started in
Environments ==
    { {},
      {<<"RAG_SERVICE_URL", "">>},
      {<<"RAG_SERVICE_URL", "http://rag:8000/analyze-payload">>} }

(***************************************************************************)
(* Requests                                                                *)
(***************************************************************************)
\* request.url.path of the requests sent
Paths == {"/login", "/health", "/admin/incidents", "/administrator",
          "/api/incidents", "/api/ttps"}

\* request bodies and query strings sent; the characters stand for the
\* attack tokens the rule sets look for: ' and < are signature tokens, ' u t
\* are regex tokens, % makes the first signature predicate raise
Bodies == {"", "'", "%u"}

Queries == {"", "<", "t"}

\* request.client.host
ClientIps == {"10.0.0.1"}

\* the key query parameter of the requests sent to POST /api/incidents
Keys == {"supersecretadminkey", "wrong"}

(***************************************************************************)
(* Signature rule set (owasp_rules.OWASP_RULES) and regex rule set         *)
(* (regex_rules.check_regex_rules)                                         *)
(***************************************************************************)
\* the rule names of OWASP_RULES in the mapping's iteration order
OWASP_RULES == <<"SQLInjection", "XSS">>

\* rule_fn(payload) of the rule named rule_name: "True", "False", or "raise"
\* when the predicate raises
rule_fn(rule_name, payload) ==
    CASE rule_name = "SQLInjection" ->
            IF Contains(payload, "%") THEN "raise"
            ELSE IF Contains(payload, "'") THEN "True" ELSE "False"
      [] rule_name = "XSS" ->
            IF Contains(payload, "<") THEN "True" ELSE "False"
      [] OTHER -> "False"

\* the rule names of the regex rule set in its iteration order
REGEX_RULES == <<"SQL Injection", "Path Traversal">>

\* whether the pattern of the regex rule named rule_name matches payload
regex_search(rule_name, payload) ==
    CASE rule_name = "SQL Injection" -> Contains(payload, "'") \/ Contains(payload, "u")
      [] rule_name = "Path Traversal" -> Contains(payload, "t")
      [] OTHER -> FALSE

\* check_regex_rules(payload): the names of all matching regex rules
check_regex_rules(payload) ==
    SelectSeq(REGEX_RULES, LAMBDA n : regex_search(n, payload))

(***************************************************************************)
(* Events a request's task performs, in order (history of the task)        *)
(***************************************************************************)
\* op: the call; arg: its argument; res: its result; id: the row id an insert
\* returned (0 otherwise)
Ev(op, arg, res, id) == [op |-> op, arg |-> arg, res |-> res, id |-> id]

\* the events of trace with operation op
EventsOf(trace, op) == SelectSeq(trace, LAMBDA e : e.op = op)

(***************************************************************************)
(* payload_inspection_middleware: the synchronous parts                    *)
(***************************************************************************)
\* IsBypassed with the "/health" prefix left out
IsBypassedNoHealth(path) ==
    \/ StartsWith(path, "/api/")
    \/ StartsWith(path, "/admin")

\* path.startswith(("/api/", "/admin", "/health"))
IsBypassed(path) ==
    \/ StartsWith(path, "/api/")
    \/ StartsWith(path, "/admin")
    \/ StartsWith(path, "/health")

\* payload = payload_text + (request.url.query or "")
CombinedPayload(body, query) == body \o query

RECURSIVE OwaspLoopLastMatch(_, _)
\* OwaspLoop running every predicate and keeping the last one that is true
OwaspLoopLastMatch(payload, i) ==
    IF i > Len(OWASP_RULES)
    THEN [matched |-> FALSE, rule_name |-> "", evals |-> <<>>]
    ELSE LET rule_name == OWASP_RULES[i]
             res == rule_fn(rule_name, payload)
             rest == OwaspLoopLastMatch(payload, i + 1)
             evals == <<Ev("rule_fn", rule_name, res, 0)>> \o rest.evals
         IN  IF rest.matched THEN [rest EXCEPT !.evals = evals]
             ELSE [matched |-> res = "True",
                   rule_name |-> IF res = "True" THEN rule_name ELSE "",
                   evals |-> evals]

RECURSIVE OwaspLoopStopOnRaise(_, _)
\* OwaspLoop with the try around the whole loop: a predicate that raises ends it
OwaspLoopStopOnRaise(payload, i) ==
    IF i > Len(OWASP_RULES)
    THEN [matched |-> FALSE, rule_name |-> "", evals |-> <<>>]
    ELSE LET rule_name == OWASP_RULES[i]
             res == rule_fn(rule_name, payload)
         IN  IF res = "True"
             THEN [matched |-> TRUE, rule_name |-> rule_name,
                   evals |-> <<Ev("rule_fn", rule_name, res, 0)>>]
             ELSE IF res = "raise"
             THEN [matched |-> FALSE, rule_name |-> "",
                   evals |-> <<Ev("rule_fn", rule_name, res, 0)>>]
             ELSE LET rest == OwaspLoopStopOnRaise(payload, i + 1)
                  IN  [rest EXCEPT !.evals = <<Ev("rule_fn", rule_name, res, 0)>> \o @]

RECURSIVE OwaspLoop(_, _)
\* the loop over OWASP_RULES.items() from rule i on: a predicate that raises
\* is logged and the loop continues; the first true predicate ends the loop
OwaspLoop(payload, i) ==
    IF i > Len(OWASP_RULES)
    THEN [matched |-> FALSE, rule_name |-> "", evals |-> <<>>]
    ELSE LET rule_name == OWASP_RULES[i]
             res == rule_fn(rule_name, payload)
         IN  IF res = "True"
             THEN [matched |-> TRUE, rule_name |-> rule_name,
                   evals |-> <<Ev("rule_fn", rule_name, res, 0)>>]
             ELSE LET rest == OwaspLoop(payload, i + 1)
                  IN  [rest EXCEPT !.evals = <<Ev("rule_fn", rule_name, res, 0)>> \o @]

\* RuleStages with the signature loop left out
RuleStagesNoSignature(payload) ==
    LET triggered == check_regex_rules(payload)
    IN  [stage |-> IF triggered # <<>> THEN "regex" ELSE "none",
         names |-> triggered,
         evals |-> <<Ev("check_regex_rules", "", Join(", ", triggered), 0)>>]

\* RuleStages with the regex check run before the signature loop
RuleStagesRegexFirst(payload) ==
    LET triggered == check_regex_rules(payload)
        sig == OwaspLoop(payload, 1)
        ev == <<Ev("check_regex_rules", "", Join(", ", triggered), 0)>>
    IN  IF triggered # <<>>
        THEN [stage |-> "regex", names |-> triggered, evals |-> ev]
        ELSE [stage |-> IF sig.matched THEN "owasp" ELSE "none",
              names |-> IF sig.matched THEN <<sig.rule_name>> ELSE <<>>,
              evals |-> ev \o sig.evals]

\* the two rule stages in the order the middleware runs them: which stage
\* blocked ("none" when neither did), the rule names to log, the evaluations
RuleStages(payload) ==
    LET sig == OwaspLoop(payload, 1)
    IN  IF sig.matched
        THEN [stage |-> "owasp", names |-> <<sig.rule_name>>, evals |-> sig.evals]
        ELSE LET triggered == check_regex_rules(payload)
             IN  [stage |-> IF triggered # <<>> THEN "regex" ELSE "none",
                  names |-> triggered,
                  evals |-> sig.evals \o
                            <<Ev("check_regex_rules", "", Join(", ", triggered), 0)>>]

\* IncidentsToLog logging the first matched name only
IncidentsToLogFirstOnly(stage, names) == <<names[1]>>

\* the rule names log_incident is awaited for after a rule stage blocked
IncidentsToLog(stage, names) == names

\* the JSONResponse returned after a rule stage blocked
BlockedResponse(stage, names) ==
    IF stage = "owasp"
    THEN [status_code |-> 403, detail |-> "Blocked by OWASP rule: " \o names[1]]
    ELSE [status_code |-> 403,
          detail |-> "Blocked by Regex rule(s): " \o Join(", ", names)]

\* RagEnabled without the test of the URL
RagEnabledAlways == TRUE

\* if RAG_SERVICE_URL: (an empty string is false)
RagEnabled == RAG_SERVICE_URL # ""

(***************************************************************************)
(* The call of the RAG service (httpx) and what the middleware makes of it *)
(***************************************************************************)
None == "<None>"

\* a JSON object as a set of <<key, value>> pairs; dict.get(key, default)
dict_get(d, key, default) ==
    IF \E kv \in d : kv[1] = key
    THEN (CHOOSE kv \in d : kv[1] = key)[2]
    ELSE default

\* the JSON bodies sent to POST /api/incidents: a Suricata alert, an empty
\* rule, no field at all, and a rule that is JSON null
IntakeBodies ==
    { {<<"ip", "192.0.2.7">>, <<"payload", "ET SCAN">>,
       <<"rule", "SURICATA sql xss">>},
      {<<"rule", "">>},
      {},
      {<<"rule", None>>} }

Outcome(exc, status_code, json, data) ==
    [exc |-> exc, status_code |-> status_code, json |-> json, data |-> data]

\* what client.post can end in: a transport exception, or a response with a
\* status code and a body that is no JSON, a JSON array or a JSON object
RagOutcomes ==
    { Outcome("ConnectError", 0, "", {}),
      Outcome("ReadTimeout", 0, "", {}),
      Outcome("", 500, "object", {<<"detail", "Error during analysis">>}),
      Outcome("", 200, "invalid", {}),
      Outcome("", 200, "array", {}),
      Outcome("", 200, "object", {<<"reason", "no verdict">>}),
      Outcome("", 200, "object", {<<"verdict", "suspicious">>}),
      Outcome("", 200, "object", {<<"verdict", "benign">>}),
      Outcome("", 200, "object", {<<"verdict", "malicious">>}),
      Outcome("", 200, "object",
              {<<"verdict", "malicious">>, <<"detected_pattern", "sql probe">>}),
      Outcome("", 200, "object",
              {<<"verdict", "malicious">>, <<"detected_pattern", "Log4Shell">>}) }

\* the exception classes an exception is an instance of
Mro(exc) ==
    CASE exc = "ConnectError" ->
            {"ConnectError", "NetworkError", "TransportError", "RequestError",
             "HTTPError", "Exception"}
      [] exc = "ReadTimeout" ->
            {"ReadTimeout", "TimeoutException", "TransportError", "RequestError",
             "HTTPError", "Exception"}
      [] exc = "HTTPStatusError" -> {"HTTPStatusError", "HTTPError", "Exception"}
      [] exc = "JSONDecodeError" -> {"JSONDecodeError", "ValueError", "Exception"}
      [] exc = "AttributeError" -> {"AttributeError", "Exception"}
      [] OTHER -> {"Exception"}

\* the body of the try block: client.post, response.raise_for_status(),
\* response.json(), rag_data.get("verdict"); the exception raised, "" if none
RagTryRaises(out) ==
    IF out.exc # "" THEN out.exc
    ELSE IF ~(out.status_code \in 200..299) THEN "HTTPStatusError"
    ELSE IF out.json = "invalid" THEN "JSONDecodeError"
    ELSE IF out.json # "object" THEN "AttributeError"
    ELSE ""

\* IsRequestError catching connection errors only
IsConnectErrorOnly(exc) == "NetworkError" \in Mro(exc)

\* except httpx.RequestError
IsRequestError(exc) == "RequestError" \in Mro(exc)

\* IsMalicious taking any verdict for malicious
IsMaliciousAnyVerdict(rag_data) == dict_get(rag_data, "verdict", None) # None

\* rag_data.get("verdict") == "malicious"
IsMalicious(rag_data) == dict_get(rag_data, "verdict", None) = "malicious"

\* RagRuleName without the "RAG: " prefix
RagRuleNameNoPrefix(rag_data) ==
    dict_get(rag_data, "detected_pattern", "Unknown Pattern")

\* rule_name = f"RAG: {rag_data.get('detected_pattern', 'Unknown Pattern')}"
RagRuleName(rag_data) ==
    "RAG: " \o dict_get(rag_data, "detected_pattern", "Unknown Pattern")

RagBlockedResponse(rule_name) ==
    [status_code |-> 403, detail |-> "Blocked by RAG analysis: " \o rule_name]

UnavailableResponse ==
    [status_code |-> 503, detail |-> "Service Unavailable: Analysis service is down."]

\* what the semantic stage ends in for a given outcome of the call:
\* "blocked" (log the incident, 403), "unavailable" (503), "raise" (the
\* exception leaves the middleware) or "safe" (fall through to the safe path)
RagStage(out) ==
    LET exc == RagTryRaises(out)
    IN  IF exc # ""
        THEN IF IsRequestError(exc)
             THEN [kind |-> "unavailable", rule_name |-> "", exc |-> exc]
             ELSE [kind |-> "raise", rule_name |-> "", exc |-> exc]
        ELSE IF IsMalicious(out.data)
             THEN [kind |-> "blocked", rule_name |-> RagRuleName(out.data), exc |-> ""]
             ELSE [kind |-> "safe", rule_name |-> "", exc |-> ""]

\* a short name of the outcome for the history
OutcomeName(out) ==
    IF out.exc # "" THEN out.exc
    ELSE IF ~(out.status_code \in 200..299) THEN "non-2xx"
    ELSE IF out.json # "object" THEN out.json
    ELSE dict_get(out.data, "verdict", None)

(***************************************************************************)
(* incident_logger: rows and the technique mapping of log_incident         *)
(***************************************************************************)
IncidentRow(id, ip, payload, rule) ==
    [id |-> id, ip |-> ip, payload |-> payload, rule_triggered |-> rule,
     status |-> "open"]

RequestRow(id, status, client_ip) ==
    [id |-> id, status |-> status, client_ip |-> client_ip]

TtpRow(id, incident_id, technique) ==
    [id |-> id, incident_id |-> incident_id,
     technique_id |-> technique.technique_id,
     technique_name |-> technique.technique_name]

NoTechnique == [technique_id |-> "", technique_name |-> ""]

\* AutoMitreMapping looking for the upper-case words in the rule as given
AutoMitreMappingCaseSensitive(rule) ==
    IF Contains(rule, "SQL")
    THEN [technique_id |-> "T1190",
          technique_name |-> "Exploit Public-Facing Application"]
    ELSE IF Contains(rule, "XSS")
    THEN [technique_id |-> "T1059.007",
          technique_name |-> "Cross-Site Scripting (XSS)"]
    ELSE NoTechnique

\* the if / elif on rule.upper() in log_incident
AutoMitreMapping(rule) ==
    IF Contains(Upper(rule), "SQL")
    THEN [technique_id |-> "T1190",
          technique_name |-> "Exploit Public-Facing Application"]
    ELSE IF Contains(Upper(rule), "XSS")
    THEN [technique_id |-> "T1059.007",
          technique_name |-> "Cross-Site Scripting (XSS)"]
    ELSE NoTechnique

(***************************************************************************)
(* State                                                                   *)
(*   environ    the process environment RAG_SERVICE_URL is read from       *)
(*   req        one record per request task                                *)
(*   incidents, requests, ttps   the rows of the three tables, in insert   *)
(*              order                                                      *)
(***************************************************************************)
NoResponse == [status_code |-> 0, detail |-> ""]

\* no call of get_api_usage: the clock (minutes), the timestamp column of the
\* requests rows by id, and the series returned
NoUsage == [now |-> 0, timestamp |-> <<>>, called |-> FALSE, returned |-> <<>>]

\* the startup handler at its start: nothing connected, nothing created
NewBoot ==
    [pc |-> "connect", connects |-> 0, attempt_number |-> 0, statement |-> 0,
     created |-> {}, slept |-> 0, failed |-> "", warned |-> FALSE]

\* the startup handler once it has returned: the service takes requests
StartedBoot == [NewBoot EXCEPT !.pc = "started"]

\* the routes that take the key query parameter and call admin_auth
KeyedRoutes == {"add_incident", "admin_list_incidents"}

\* the route a request is handed to by call_next
Route(path) ==
    IF path = "/api/incidents" THEN "add_incident"
    ELSE IF path = "/api/ttps" THEN "get_ttp_data"
    ELSE IF path = "/admin/incidents" THEN "admin_list_incidents"
    ELSE IF path = "/health" THEN "health"
    ELSE "catch_all"

SuricataRow(id, source, signature) ==
    [id |-> id, source |-> source, signature |-> signature,
     category |-> "Suricata Alert", severity |-> 2]

\* the answers of add_incident
UnauthorizedResponse == [status_code |-> 401, detail |-> "Unauthorized access."]

IntakeSuccessResponse ==
    [status_code |-> 200, detail |-> "Incident logged successfully"]

IntakeErrorResponse(exc) == [status_code |-> 500, detail |-> exc]

\* no call of the RAG service made (yet)
NoOutcome == Outcome("", 0, "", {})

\* the 500 answer the server gives when an exception leaves the middleware
ServerErrorResponse == [status_code |-> 500, detail |-> "Internal Server Error"]

IdleRequest ==
    [pc |-> "idle", path |-> "", payload |-> "", client_ip |-> "",
     key |-> "", data |-> {}, caller |-> "",
     args |-> [ip |-> "", payload |-> ""],
     queue |-> <<>>, pending |-> NoResponse, incident_id |-> 0,
     rag_out |-> NoOutcome,
     trace |-> <<>>, response |-> NoResponse, body |-> <<>>, raised |-> "",
     forwarded |-> FALSE]

Init ==
    /\ environ \in Environments
    /\ req = [r \in Reqs |-> IdleRequest]
    /\ incidents = <<>>
    /\ requests = <<>>
    /\ ttps = <<>>
    /\ suricata_logs = <<>>
    /\ handled = <<>>
    /\ boot = StartedBoot
    /\ usage = NoUsage

\* the task of request r starts log_incident(client_ip, payload, rule) for the
\* rules of names in turn and returns blocked once all of them are logged
StartLogging(q, names, blocked, evs) ==
    [q EXCEPT !.pc = "insert_incident",
              !.caller = "middleware",
              !.args = [ip |-> q.client_ip, payload |-> q.payload],
              !.queue = names,
              !.pending = blocked,
              !.trace = @ \o evs \o <<Ev("log_incident", names[1], "", 0)>>]

\* log_incident returned to add_incident: rule.startswith("SURICATA") raises
\* when rule is no string (caught by except Exception: 500), sends a Suricata
\* rule on to log_suricata_alert, and answers 200 otherwise (main.py 296-317)
AfterIntakeLogged(q, evs) ==
    LET rule == q.queue[1]
    IN  IF rule = None
        THEN [q EXCEPT !.pc = "done", !.incident_id = 0,
                       !.response = IntakeErrorResponse("AttributeError"),
                       !.trace = @ \o evs]
        ELSE IF StartsWith(rule, "SURICATA")
        THEN [q EXCEPT !.pc = "log_suricata", !.incident_id = 0,
                       !.trace = @ \o evs]
        ELSE [q EXCEPT !.pc = "done", !.incident_id = 0,
                       !.response = IntakeSuccessResponse,
                       !.trace = @ \o evs]

\* AfterLogIncident with log_incident letting a failed insert raise out of it
AfterLogIncidentRaising(q, evs) ==
    IF \E i \in 1..Len(evs) : evs[i].res = "fail"
    THEN [q EXCEPT !.pc = "done", !.queue = <<>>, !.incident_id = 0,
                   !.raised = "DatabaseError",
                   !.response = [status_code |-> 500, detail |-> "Internal Server Error"],
                   !.trace = @ \o evs]
    ELSE IF q.caller = "add_incident"
    THEN [q EXCEPT !.pc = "done", !.incident_id = 0,
                   !.response = [status_code |-> 200,
                                 detail |-> "Incident logged successfully"],
                   !.trace = @ \o evs]
    ELSE [q EXCEPT !.pc = "done", !.queue = <<>>, !.incident_id = 0,
                   !.response = q.pending,
                   !.trace = @ \o evs]

\* log_incident returned: to add_incident, or to the middleware, which logs
\* the next rule of the queue or returns the blocked response
AfterLogIncident(q, evs) ==
    IF q.caller = "add_incident" THEN AfterIntakeLogged(q, evs)
    ELSE IF Len(q.queue) > 1
    THEN [q EXCEPT !.pc = "insert_incident",
                   !.queue = Tail(@),
                   !.incident_id = 0,
                   !.trace = @ \o evs \o <<Ev("log_incident", q.queue[2], "", 0)>>]
    ELSE [q EXCEPT !.pc = "done",
                   !.queue = <<>>,
                   !.incident_id = 0,
                   !.response = q.pending,
                   !.trace = @ \o evs]

Result(ok) == IF ok THEN "ok" ELSE "fail"

(***************************************************************************)
(* get_ttp_data: the roll-up of the incidents by rule                      *)
(***************************************************************************)
\* MITRE_MAP, as a dict
MITRE_MAP ==
    { <<"SQL Injection", [id |-> "T1190", tactic |-> "Execution"]>>,
      <<"XSS", [id |-> "T1059.007", tactic |-> "Execution"]>>,
      <<"Path Traversal", [id |-> "T1083", tactic |-> "Discovery"]>>,
      <<"Brute Force", [id |-> "T1110", tactic |-> "Credential Access"]>> }

\* limit: int = 100
DefaultLimit == 100

\* one row per rule_triggered that is not NULL: its count and the payload and
\* ip of its newest incident
RuleCounts(table) ==
    { LET of == {i \in 1..Len(table) : table[i].rule_triggered = rule}
          newest == CHOOSE i \in of : \A j \in of : j <= i
      IN  [rule_triggered |-> rule, count |-> Cardinality(of),
           sample_payload |-> table[newest].payload,
           sample_ip |-> table[newest].ip] :
      rule \in {table[i].rule_triggered : i \in 1..Len(table)} \ {None} }

\* the results the query can return: the rows ORDER BY count DESC, rows of
\* equal count in any order, and LIMIT :limit of them
FetchRuleCounts(table, limit) ==
    LET rows == RuleCounts(table)
        n == Cardinality(rows)
        ordered == {s \in [1..n -> rows] :
                      /\ \A i, j \in 1..n : i # j => s[i] # s[j]
                      /\ \A i, j \in 1..n : i < j => s[i].count >= s[j].count}
    IN  {SubSeq(s, 1, IF limit < n THEN limit ELSE n) : s \in ordered}

\* the loop of get_ttp_data over the rows of the query
get_ttp_data(results) ==
    [k \in 1..Len(results) |->
        LET rule == results[k].rule_triggered
            mapping == dict_get(MITRE_MAP, rule,
                                [id |-> "Unknown", tactic |-> "Unmapped"])
        IN  [id |-> mapping.id, name |-> rule, tactic |-> mapping.tactic,
             count |-> results[k].count,
             description |-> "Latest detection of " \o rule \o " from "
                                \o results[k].sample_ip,
             example |-> IF results[k].sample_payload = "" THEN "N/A"
                         ELSE results[k].sample_payload]]

(***************************************************************************)
(* Actions: one per segment of a handler between two awaits                *)
(***************************************************************************)
\* a request arrives; internal paths skip the inspection (main.py 84-93)
Receive(r) ==
    /\ req[r].pc = "idle"
    /\ IF r = 1 THEN TRUE ELSE req[r - 1].pc # "idle"
    /\ \E path \in Paths, body \in Bodies, query \in Queries, ip \in ClientIps,
          key \in Keys, data \in IntakeBodies :
          req' = [req EXCEPT ![r] =
                    [@ EXCEPT !.path = path,
                              !.client_ip = ip,
                              !.key = IF Route(path) \in KeyedRoutes THEN key ELSE "",
                              !.data = IF Route(path) = "add_incident" THEN data ELSE {},
                              !.payload = IF IsBypassed(path) THEN ""
                                          ELSE CombinedPayload(body, query),
                              !.pc = IF IsBypassed(path) THEN "call_next"
                                     ELSE "inspect"]]
    /\ UNCHANGED <<environ, incidents, requests, ttps, suricata_logs>>
    /\ UNCHANGED aux

\* the signature loop, the regex check and the branch taken after them, up to
\* the first await (main.py 100-130)
Inspect(r) ==
    /\ req[r].pc = "inspect"
    /\ LET q == req[r]
           st == RuleStages(q.payload)
       IN  req' = [req EXCEPT ![r] =
                IF st.stage # "none"
                THEN StartLogging(q, IncidentsToLog(st.stage, st.names),
                                  BlockedResponse(st.stage, st.names), st.evals)
                ELSE IF RagEnabled
                THEN [q EXCEPT !.pc = "rag", !.trace = @ \o st.evals]
                ELSE [q EXCEPT !.pc = "log_request", !.trace = @ \o st.evals]]
    /\ UNCHANGED <<environ, incidents, requests, ttps, suricata_logs>>
    /\ UNCHANGED aux

\* client.post returns or raises, and the middleware acts on it (main.py 128-151)
RagCall(r) ==
    /\ req[r].pc = "rag"
    /\ \E out \in RagOutcomes :
          LET st == RagStage(out)
              ev == <<Ev("rag_post", req[r].payload, OutcomeName(out), 0)>>
              q == [req[r] EXCEPT !.rag_out = out]
          IN  req' = [req EXCEPT ![r] =
                CASE st.kind = "blocked" ->
                        StartLogging(q, <<st.rule_name>>,
                                     RagBlockedResponse(st.rule_name), ev)
                  [] st.kind = "unavailable" ->
                        [q EXCEPT !.pc = "done", !.response = UnavailableResponse,
                                  !.trace = @ \o ev]
                  [] st.kind = "raise" ->
                        [q EXCEPT !.pc = "done", !.raised = st.exc,
                                  !.response = ServerErrorResponse,
                                  !.trace = @ \o ev]
                  [] OTHER ->
                        [q EXCEPT !.pc = "log_request", !.trace = @ \o ev]]
    /\ UNCHANGED <<environ, incidents, requests, ttps, suricata_logs>>
    /\ UNCHANGED aux

\* InsertIncident with a try of its own around the insert: after a failed
\* insert log_incident goes on to write the error row
InsertIncidentThenGoesOn(r) ==
    /\ req[r].pc = "insert_incident"
    /\ \E ok \in BOOLEAN :
          LET q == req[r]
              rule == q.queue[1]
              id == Len(incidents) + 1
              ev == <<Ev("insert_incident", rule, Result(ok), IF ok THEN id ELSE 0)>>
          IN  /\ incidents' = IF ok
                              THEN Append(incidents,
                                      IncidentRow(id, q.args.ip, q.args.payload, rule))
                              ELSE incidents
              /\ req' = [req EXCEPT ![r] =
                        IF rule = None
                        THEN AfterLogIncident(q, ev)
                        ELSE [q EXCEPT !.incident_id = IF ok THEN id ELSE 0,
                                       !.trace = @ \o ev,
                                       !.pc = IF ok /\ AutoMitreMapping(rule) # NoTechnique
                                              THEN "log_ttp" ELSE "log_request_error"]]
    /\ UNCHANGED <<environ, requests, ttps, suricata_logs>>
    /\ UNCHANGED aux

\* log_incident: the insert into incidents returns the id or raises; a raise
\* goes to the except clause of log_incident, and so does rule.upper() when
\* rule is no string (incident_logger.py 145-163)
InsertIncident(r) ==
    /\ req[r].pc = "insert_incident"
    /\ \E ok \in BOOLEAN :
          LET q == req[r]
              rule == q.queue[1]
              id == Len(incidents) + 1
              ev == <<Ev("insert_incident", rule, Result(ok), IF ok THEN id ELSE 0)>>
          IN  IF ok
              THEN /\ incidents' = Append(incidents,
                                      IncidentRow(id, q.args.ip, q.args.payload, rule))
                   /\ req' = [req EXCEPT ![r] =
                        IF rule = None
                        THEN AfterLogIncident(q, ev)
                        ELSE [q EXCEPT !.incident_id = id,
                                       !.trace = @ \o ev,
                                       !.pc = IF AutoMitreMapping(rule) # NoTechnique
                                              THEN "log_ttp" ELSE "log_request_error"]]
              ELSE /\ incidents' = incidents
                   /\ req' = [req EXCEPT ![r] = AfterLogIncident(q, ev)]
    /\ UNCHANGED <<environ, requests, ttps, suricata_logs>>
    /\ UNCHANGED aux

\* LogTtp referencing the newest row of incidents instead of the id that the
\* insert of its own log_incident call returned
LogTtpLatestIncident(r) ==
    /\ req[r].pc = "log_ttp"
    /\ \E ok \in BOOLEAN :
          LET q == req[r]
              rule == q.queue[1]
              id == Len(ttps) + 1
          IN  /\ ttps' = IF ok
                         THEN Append(ttps, TtpRow(id, Len(incidents),
                                                  AutoMitreMapping(rule)))
                         ELSE ttps
              /\ req' = [req EXCEPT ![r] =
                    [q EXCEPT !.pc = "log_request_error",
                              !.trace = @ \o <<Ev("insert_ttp", rule, Result(ok), IF ok THEN id ELSE 0)>>]]
    /\ UNCHANGED <<environ, incidents, requests, suricata_logs>>
    /\ UNCHANGED aux

\* log_ttp: the insert into ttps; a failure is logged and swallowed
\* (incident_logger.py 130-142)
LogTtp(r) ==
    /\ req[r].pc = "log_ttp"
    /\ \E ok \in BOOLEAN :
          LET q == req[r]
              rule == q.queue[1]
              id == Len(ttps) + 1
          IN  /\ ttps' = IF ok
                         THEN Append(ttps, TtpRow(id, q.incident_id,
                                                  AutoMitreMapping(rule)))
                         ELSE ttps
              /\ req' = [req EXCEPT ![r] =
                    [q EXCEPT !.pc = "log_request_error",
                              !.trace = @ \o <<Ev("insert_ttp", rule, Result(ok), IF ok THEN id ELSE 0)>>]]
    /\ UNCHANGED <<environ, incidents, requests, suricata_logs>>
    /\ UNCHANGED aux

\* log_request(status="error") at the end of log_incident; a failure is logged
\* and swallowed (incident_logger.py 118-128, 161)
LogRequestError(r) ==
    /\ req[r].pc = "log_request_error"
    /\ \E ok \in BOOLEAN :
          LET q == req[r]
              id == Len(requests) + 1
          IN  /\ requests' = IF ok
                             THEN Append(requests,
                                    RequestRow(id, "error", q.args.ip))
                             ELSE requests
              /\ req' = [req EXCEPT ![r] =
                    AfterLogIncident(q, <<Ev("insert_request", "error", Result(ok), IF ok THEN id ELSE 0)>>)]
    /\ UNCHANGED <<environ, incidents, ttps, suricata_logs>>
    /\ UNCHANGED aux

\* the safe path: log_request(status="success") (main.py 154)
LogRequestSuccess(r) ==
    /\ req[r].pc = "log_request"
    /\ \E ok \in BOOLEAN :
          LET q == req[r]
              id == Len(requests) + 1
          IN  /\ requests' = IF ok
                             THEN Append(requests,
                                    RequestRow(id, "success", q.client_ip))
                             ELSE requests
              /\ req' = [req EXCEPT ![r] =
                    [q EXCEPT !.pc = "call_next",
                              !.trace = @ \o <<Ev("insert_request", "success", Result(ok), IF ok THEN id ELSE 0)>>]]
    /\ UNCHANGED <<environ, incidents, ttps, suricata_logs>>
    /\ UNCHANGED aux

\* call_next(request): the route handler runs.  health, catch_all and the
\* read-only admin_list_incidents answer at once, the last after checking the
\* key; add_incident checks the key and awaits request.json(); get_ttp_data
\* awaits its query (main.py 89, 155-156, 185-195, 210-226, 287-289, 324-327)
CallNext(r) ==
    /\ req[r].pc = "call_next"
    /\ LET q == [req[r] EXCEPT !.forwarded = TRUE,
                               !.trace = @ \o <<Ev("call_next", req[r].path, "", 0)>>]
       IN  req' = [req EXCEPT ![r] =
                IF Route(q.path) \in KeyedRoutes /\ q.key # ADMIN_KEY
                THEN [q EXCEPT !.pc = "done", !.response = UnauthorizedResponse]
                ELSE IF Route(q.path) \in {"add_incident", "get_ttp_data"}
                THEN [q EXCEPT !.pc = Route(q.path)]
                ELSE [q EXCEPT !.pc = "done",
                               !.response = [status_code |-> 200, detail |-> "handler"]]]
    /\ UNCHANGED <<environ, incidents, requests, ttps, suricata_logs>>
    /\ UNCHANGED aux

\* add_incident: the fields of the body with their defaults, and the call of
\* log_incident up to its insert (main.py 289-294)
AddIncident(r) ==
    /\ req[r].pc = "add_incident"
    /\ LET q == req[r]
           rule == dict_get(q.data, "rule", "Unknown")
       IN  req' = [req EXCEPT ![r] =
                [q EXCEPT !.pc = "insert_incident",
                          !.caller = "add_incident",
                          !.args = [ip |-> dict_get(q.data, "ip", "unknown"),
                                    payload |-> dict_get(q.data, "payload", "")],
                          !.queue = <<rule>>,
                          !.trace = @ \o <<Ev("log_incident", rule, "", 0)>>]]
    /\ UNCHANGED <<environ, incidents, requests, ttps, suricata_logs>>
    /\ UNCHANGED aux

\* log_suricata_alert: the insert into suricata_logs; a failure is logged and
\* swallowed; add_incident then answers 200 (incident_logger.py 165-177,
\* main.py 297-308)
LogSuricataAlert(r) ==
    /\ req[r].pc = "log_suricata"
    /\ \E ok \in BOOLEAN :
          LET q == req[r]
              id == Len(suricata_logs) + 1
          IN  /\ suricata_logs' =
                    IF ok
                    THEN Append(suricata_logs, SuricataRow(id, q.args.ip, q.queue[1]))
                    ELSE suricata_logs
              /\ req' = [req EXCEPT ![r] =
                    [q EXCEPT !.pc = "done",
                              !.response = IntakeSuccessResponse,
                              !.trace = @ \o <<Ev("insert_suricata", q.queue[1],
                                                  Result(ok), IF ok THEN id ELSE 0)>>]]
    /\ UNCHANGED <<environ, incidents, requests, ttps>>
    /\ UNCHANGED aux

\* get_ttp_data: the query returns and the roll-up is built from it, or it
\* raises and the error is returned as a 500 response (main.py 209-253)
GetTtpData(r) ==
    /\ req[r].pc = "get_ttp_data"
    /\ \E ok \in BOOLEAN :
          IF ok
          THEN \E rows \in FetchRuleCounts(incidents, DefaultLimit) :
                  req' = [req EXCEPT ![r] =
                            [@ EXCEPT !.pc = "done",
                                      !.response = [status_code |-> 200,
                                                    detail |-> "ttps"],
                                      !.body = get_ttp_data(rows),
                                      !.trace = @ \o <<Ev("fetch_ttps", "", "ok", 0)>>]]
          ELSE req' = [req EXCEPT ![r] =
                         [@ EXCEPT !.pc = "done",
                                   !.response = [status_code |-> 500,
                                                 detail |-> "error"],
                                   !.trace = @ \o <<Ev("fetch_ttps", "", "raised", 0)>>]]
    /\ UNCHANGED <<environ, incidents, requests, ttps, suricata_logs>>
    /\ UNCHANGED aux

Next ==
    \E r \in Reqs :
        \/ Receive(r)
        \/ Inspect(r)
        \/ RagCall(r)
        \/ InsertIncident(r)
        \/ LogTtp(r)
        \/ LogRequestError(r)
        \/ LogRequestSuccess(r)
        \/ CallNext(r)
        \/ AddIncident(r)
        \/ LogSuricataAlert(r)
        \/ GetTtpData(r)

Spec == Init /\ [][Next]_vars

(***************************************************************************)
(* Vocabulary of the properties                                            *)
(***************************************************************************)
\* the request went through the inspection (its path is not an internal one)
Inspected(q) == q.pc # "idle" /\ ~IsBypassed(q.path)

Finished(q) == q.pc = "done"

\* the signature rules whose predicate is true of payload
SigMatches(payload) ==
    {OWASP_RULES[i] : i \in {j \in 1..Len(OWASP_RULES) :
                                rule_fn(OWASP_RULES[j], payload) = "True"}}

\* the regex rules whose pattern matches payload
RegexMatches(payload) ==
    {REGEX_RULES[i] : i \in {j \in 1..Len(REGEX_RULES) :
                                regex_search(REGEX_RULES[j], payload)}}

\* the arguments of the calls of op the task made, in order
Args(q, op) ==
    LET es == EventsOf(q.trace, op) IN [i \in 1..Len(es) |-> es[i].arg]

\* the number of calls of op the task made
Calls(q, op) == Len(EventsOf(q.trace, op))

\* the inserts into incidents of the task that returned an id
IncidentInserts(q) ==
    SelectSeq(q.trace, LAMBDA e : e.op = "insert_incident" /\ e.res = "ok")

\* the request is on, or went down, the safe path to the protected handler
OnSafePath(q) == q.pc \in {"log_request", "call_next"} \/ q.forwarded

\* the semantic stage was entered or its call was made
SemanticUsed(q) == q.pc = "rag" \/ Calls(q, "rag_post") > 0

(***************************************************************************)
(* C1: an inspected request whose payload matches a signature rule never   *)
(* reaches the semantic stage or the protected handler, and it ends with   *)
(* a 403 response that names a matching signature rule.                    *)
(***************************************************************************)
C1_SignatureMatchBlocked ==
    \A r \in Reqs :
        LET q == req[r] IN
        (Inspected(q) /\ q.pc # "inspect" /\ SigMatches(q.payload) # {}) =>
            /\ ~SemanticUsed(q)
            /\ ~OnSafePath(q)
            /\ Finished(q) =>
                  /\ q.response.status_code = 403
                  /\ \E n \in SigMatches(q.payload) :
                        q.response.detail = "Blocked by OWASP rule: " \o n

C1_Witness ==
    \E r \in Reqs :
        /\ Finished(req[r])
        /\ SigMatches(req[r].payload) = {"XSS"}
        /\ RegexMatches(req[r].payload) = {}
        /\ req[r].response.status_code = 403

(***************************************************************************)
(* C2: the stages run in the order signature, regex, semantic.  The regex  *)
(* check runs only after every signature rule was evaluated without a      *)
(* match, the semantic call is made only after the regex check returned no *)
(* name, and a payload matching a signature rule and regex rules is logged *)
(* under the signature rule only: no regex check, no incident under a      *)
(* regex name.                                                             *)
(***************************************************************************)
C2_StageOrder ==
    \A r \in Reqs :
        LET q == req[r]
            t == q.trace
        IN  /\ \A i \in 1..Len(t) :
                  t[i].op = "check_regex_rules" =>
                      \A k \in 1..Len(OWASP_RULES) :
                          \E j \in 1..(i - 1) :
                              /\ t[j].op = "rule_fn"
                              /\ t[j].arg = OWASP_RULES[k]
                              /\ t[j].res # "True"
            /\ \A i \in 1..Len(t) :
                  t[i].op = "rag_post" =>
                      \E j \in 1..(i - 1) :
                          /\ t[j].op = "check_regex_rules"
                          /\ t[j].res = ""
            /\ (q.pc = "rag") => Calls(q, "check_regex_rules") = 1
            /\ (Inspected(q) /\ q.pc # "inspect"
                  /\ SigMatches(q.payload) # {} /\ RegexMatches(q.payload) # {}) =>
                  /\ Calls(q, "check_regex_rules") = 0
                  /\ \A i \in 1..Len(t) :
                        t[i].op \in {"log_incident", "insert_incident"} =>
                            /\ t[i].arg \in SigMatches(q.payload)
                            /\ t[i].arg \notin RegexMatches(q.payload)
                  /\ \A i \in 1..Len(IncidentInserts(q)) :
                        incidents[IncidentInserts(q)[i].id].rule_triggered
                            \in SigMatches(q.payload)
                  /\ Finished(q) => q.response.status_code = 403

C2_Witness ==
    \E r \in Reqs :
        /\ Finished(req[r])
        /\ SigMatches(req[r].payload) # {}
        /\ RegexMatches(req[r].payload) # {}
        /\ Len(IncidentInserts(req[r])) = 1

(***************************************************************************)
(* C3: an inspected request whose payload matches N >= 1 regex rules and   *)
(* no signature rule gets one 403 response whose reason lists all N names, *)
(* log_incident is called once per matched name in order (N inserts into   *)
(* incidents are attempted, each row written carries its name), and the    *)
(* semantic stage is not used.                                             *)
(***************************************************************************)
C3_RegexMatchesAllLogged ==
    \A r \in Reqs :
        LET q == req[r]
            triggered == check_regex_rules(q.payload)
        IN  (Inspected(q) /\ q.pc # "inspect"
               /\ SigMatches(q.payload) = {} /\ triggered # <<>>) =>
            /\ ~SemanticUsed(q)
            /\ ~OnSafePath(q)
            /\ \A i \in 1..Len(IncidentInserts(q)) :
                  incidents[IncidentInserts(q)[i].id].rule_triggered
                      = IncidentInserts(q)[i].arg
            /\ Finished(q) =>
                  /\ q.response.status_code = 403
                  /\ q.response.detail =
                        "Blocked by Regex rule(s): " \o Join(", ", triggered)
                  /\ \A i \in 1..Len(triggered) :
                        Contains(q.response.detail, triggered[i])
                  /\ Args(q, "log_incident") = triggered
                  /\ Args(q, "insert_incident") = triggered

C3_Witness ==
    \E r \in Reqs :
        /\ Finished(req[r])
        /\ SigMatches(req[r].payload) = {}
        /\ Len(check_regex_rules(req[r].payload)) = 2
        /\ Len(IncidentInserts(req[r])) = 2
        /\ Len(incidents) >= 2

\* the payload matches neither rule set
NoRuleMatches(payload) == SigMatches(payload) = {} /\ RegexMatches(payload) = {}

\* the RAG service answered 2xx with a JSON object
AnsweredObject(o) ==
    o.exc = "" /\ o.status_code \in 200..299 /\ o.json = "object"

\* the RAG service answered with this verdict
AnsweredVerdict(o, verdict) ==
    AnsweredObject(o) /\ <<"verdict", verdict>> \in o.data

\* the requests rows with this status the task inserted
OutcomeInserts(q, status) ==
    SelectSeq(q.trace, LAMBDA e :
        e.op = "insert_request" /\ e.arg = status /\ e.res = "ok")

(***************************************************************************)
(* C4 as claimed: every finished inspected request whose payload matches   *)
(* neither rule set made exactly one call of the RAG service.              *)
(***************************************************************************)
C4_ExactlyOneSemanticCall ==
    \A r \in Reqs :
        LET q == req[r] IN
        (Inspected(q) /\ Finished(q) /\ NoRuleMatches(q.payload)) =>
            Calls(q, "rag_post") = 1

(***************************************************************************)
(* C4 as amended: no request calls the RAG service more than once; a       *)
(* finished inspected request whose payload matches neither rule set made  *)
(* exactly one call when RAG_SERVICE_URL is not empty (the default URL     *)
(* when the variable is not set included) and none when it is empty.       *)
(***************************************************************************)
C4_OneSemanticCallWhenConfigured ==
    \A r \in Reqs :
        LET q == req[r] IN
        /\ Calls(q, "rag_post") <= 1
        /\ (Inspected(q) /\ Finished(q) /\ NoRuleMatches(q.payload)) =>
              Calls(q, "rag_post") = IF RAG_SERVICE_URL # "" THEN 1 ELSE 0

C4_Witness ==
    \E r \in Reqs :
        /\ Inspected(req[r]) /\ Finished(req[r])
        /\ NoRuleMatches(req[r].payload)
        /\ RAG_SERVICE_URL # ""
        /\ Calls(req[r], "rag_post") = 1

(***************************************************************************)
(* C5: when the RAG service answers malicious with detected pattern P the  *)
(* request never reaches the protected handler, log_incident is called     *)
(* once with rule name "RAG: " + P, every incident row written for the     *)
(* request carries that rule name, and the response is 403.                *)
(***************************************************************************)
C5_MaliciousBlockedUnderRagName ==
    \A r \in Reqs :
        LET q == req[r]
            o == q.rag_out
        IN  \A kv \in o.data :
                (AnsweredVerdict(o, "malicious") /\ kv[1] = "detected_pattern") =>
                    /\ ~OnSafePath(q)
                    /\ Args(q, "log_incident") = <<"RAG: " \o kv[2]>>
                    /\ \A i \in 1..Len(IncidentInserts(q)) :
                          incidents[IncidentInserts(q)[i].id].rule_triggered
                              = "RAG: " \o kv[2]
                    /\ Finished(q) =>
                          /\ q.response.status_code = 403
                          /\ Contains(q.response.detail, "RAG: " \o kv[2])

C5_Witness ==
    \E r \in Reqs :
        /\ Finished(req[r])
        /\ AnsweredVerdict(req[r].rag_out, "malicious")
        /\ <<"detected_pattern", "sql probe">> \in req[r].rag_out.data
        /\ Len(IncidentInserts(req[r])) = 1
        /\ \E i \in 1..Len(incidents) : incidents[i].rule_triggered = "RAG: sql probe"

(***************************************************************************)
(* C6 as claimed: when neither rule set matches and the RAG service        *)
(* answers benign, the finished request was forwarded to the protected     *)
(* handler, exactly one requests row with status success was written for   *)
(* it, and no incident row.                                                *)
(***************************************************************************)
C6_BenignAllowedOneSuccessRow ==
    \A r \in Reqs :
        LET q == req[r] IN
        (Inspected(q) /\ Finished(q) /\ NoRuleMatches(q.payload)
           /\ AnsweredVerdict(q.rag_out, "benign")) =>
            /\ q.forwarded
            /\ Len(OutcomeInserts(q, "success")) = 1
            /\ Len(IncidentInserts(q)) = 0

(***************************************************************************)
(* C6 as amended: such a request is forwarded to the protected handler,    *)
(* exactly one insert of a requests row with status success is attempted   *)
(* for it (the row is written when the insert succeeds; a failure is       *)
(* swallowed and leaves no row), no row with status error and no incident  *)
(* is written for it.                                                      *)
(***************************************************************************)
C6_BenignAllowedOneSuccessInsert ==
    \A r \in Reqs :
        LET q == req[r]
            ins == EventsOf(q.trace, "insert_request")
        IN  (Inspected(q) /\ NoRuleMatches(q.payload)
               /\ AnsweredVerdict(q.rag_out, "benign")) =>
            /\ OnSafePath(q)
            /\ Calls(q, "log_incident") = 0
            /\ Len(IncidentInserts(q)) = 0
            /\ Finished(q) =>
                  /\ q.forwarded
                  /\ q.response.status_code = 200
                  /\ Len(ins) = 1
                  /\ ins[1].arg = "success"
                  /\ ins[1].res = "ok" =>
                        /\ ins[1].id \in 1..Len(requests)
                        /\ requests[ins[1].id].status = "success"
                  /\ Len(OutcomeInserts(q, "success")) =
                        IF ins[1].res = "ok" THEN 1 ELSE 0

C6_Witness ==
    \E r \in Reqs :
        /\ Finished(req[r])
        /\ AnsweredVerdict(req[r].rag_out, "benign")
        /\ req[r].forwarded
        /\ Len(OutcomeInserts(req[r], "success")) = 1
        /\ Len(requests) = 1

(***************************************************************************)
(* C7: when the call of the RAG service ends in a timeout or a connection  *)
(* error the request ends at once with the 503 response, is never          *)
(* forwarded to the protected handler, and no incident is logged for it.   *)
(***************************************************************************)
C7_TransportErrorFailsClosed ==
    \A r \in Reqs :
        LET q == req[r] IN
        q.rag_out.exc \in {"ReadTimeout", "ConnectError"} =>
            /\ Finished(q)
            /\ q.response.status_code = 503
            /\ q.raised = ""
            /\ ~q.forwarded
            /\ Calls(q, "log_incident") = 0
            /\ Calls(q, "insert_incident") = 0
            /\ Calls(q, "call_next") = 0

C7_Witness ==
    \E r \in Reqs :
        /\ req[r].rag_out.exc = "ReadTimeout"
        /\ req[r].response.status_code = 503
        /\ incidents = <<>>

(***************************************************************************)
(* C8 as claimed: when the RAG service answers with a status that is not   *)
(* 2xx the request ends like one whose call met a transport error: with    *)
(* the 503 response and without an incident row.                           *)
(***************************************************************************)
C8_Non2xxFailsClosedWith503 ==
    \A r \in Reqs :
        LET q == req[r]
            o == q.rag_out
        IN  (o.exc = "" /\ o.status_code # 0 /\ ~(o.status_code \in 200..299)) =>
            /\ Finished(q)
            /\ q.response.status_code = 503
            /\ q.raised = ""
            /\ Calls(q, "insert_incident") = 0

\* the body of a 2xx answer is no JSON, no JSON object, or a JSON object whose
\* verdict is missing or neither benign nor malicious
MalformedBody(o) ==
    /\ o.exc = ""
    /\ o.status_code \in 200..299
    /\ \/ o.json # "object"
       \/ dict_get(o.data, "verdict", None) \notin {"benign", "malicious"}

(***************************************************************************)
(* C9 as claimed: when the RAG service answers 2xx with a malformed body   *)
(* the request is never on the way to the protected handler and ends with  *)
(* the 503 response.                                                       *)
(***************************************************************************)
C9_MalformedBodyFailsClosed ==
    \A r \in Reqs :
        LET q == req[r] IN
        MalformedBody(q.rag_out) =>
            /\ ~OnSafePath(q)
            /\ Finished(q)
            /\ q.response.status_code = 503
            /\ q.raised = ""

\* the decision the middleware reached for a finished request: ALLOWED when
\* it forwarded the request, BLOCKED when it returned 403 or 503, NONE when
\* an exception left it
Decision(q) ==
    IF q.raised # "" THEN "NONE"
    ELSE IF q.forwarded THEN "ALLOWED"
    ELSE IF q.response.status_code \in {403, 503} THEN "BLOCKED"
    ELSE "NONE"

(***************************************************************************)
(* C10 as claimed: every inspection that started ends, and it ends in      *)
(* ALLOWED or in BLOCKED: a request whose task can take no further step is *)
(* finished with one of the two decisions.                                 *)
(***************************************************************************)
C10_InspectionEndsInDecision ==
    \A r \in Reqs :
        LET q == req[r] IN
        Inspected(q) =>
            /\ Finished(q) \/ ENABLED Next
            /\ Finished(q) => Decision(q) \in {"ALLOWED", "BLOCKED"}

\* no insert the task attempted has failed
AllWritesOk(q) == \A i \in 1..Len(q.trace) : q.trace[i].res # "fail"

\* the requests rows the task inserted, of either status
AllOutcomeInserts(q) ==
    SelectSeq(q.trace, LAMBDA e : e.op = "insert_request" /\ e.res = "ok")

(***************************************************************************)
(* C11 as claimed: with all database writes succeeding, a finished         *)
(* inspected request has exactly one requests row, whatever its verdict.   *)
(***************************************************************************)
C11_OneOutcomeRowPerRequest ==
    \A r \in Reqs :
        LET q == req[r] IN
        (Inspected(q) /\ Finished(q) /\ AllWritesOk(q)) =>
            /\ Len(AllOutcomeInserts(q)) = 1
            /\ AllOutcomeInserts(q)[1].id \in 1..Len(requests)

(***************************************************************************)
(* C12 as claimed: the writes of log_incident are independent: every call  *)
(* of log_incident attempts the insert of the requests row with status     *)
(* error, also when its insert into incidents failed.                      *)
(***************************************************************************)
C12_IncidentWritesIndependent ==
    \A r \in Reqs :
        LET q == req[r] IN
        Finished(q) =>
            Len(SelectSeq(q.trace, LAMBDA e :
                    e.op = "insert_request" /\ e.arg = "error"))
                = Calls(q, "log_incident")

\* the response the inputs of a finished request lead to when the request made
\* a write: blocked by the rules, blocked by the verdict, forwarded, or the
\* answer of the incident intake
ResponseOfInputs(q) ==
    IF Route(q.path) = "add_incident"
    THEN IF dict_get(q.data, "rule", "Unknown") = None
         THEN IntakeErrorResponse("AttributeError")
         ELSE IntakeSuccessResponse
    ELSE IF SigMatches(q.payload) # {} \/ RegexMatches(q.payload) # {}
    THEN BlockedResponse(RuleStages(q.payload).stage, RuleStages(q.payload).names)
    ELSE IF AnsweredVerdict(q.rag_out, "malicious")
    THEN RagBlockedResponse(RagRuleName(q.rag_out.data))
    ELSE [status_code |-> 200, detail |-> "handler"]

(***************************************************************************)
(* C13: a failed insert into incidents, mitre_ttps, requests or            *)
(* suricata_logs never changes the response: every finished request one of *)
(* whose writes failed has raised nothing and carries the response its     *)
(* inputs lead to.                                                         *)
(***************************************************************************)
C13_WriteFailureKeepsResponse ==
    \A r \in Reqs :
        LET q == req[r] IN
        (Finished(q) /\ ~AllWritesOk(q)) =>
            /\ q.raised = ""
            /\ q.response = ResponseOfInputs(q)

\* a blocked request whose incident insert failed, and an intake request whose
\* insert into suricata_logs failed
C13_Witness ==
    \E r \in Reqs :
        LET q == req[r] IN
        /\ Finished(q)
        /\ \E i \in 1..Len(q.trace) :
               q.trace[i].res = "fail" /\ q.trace[i].op \in {"insert_incident", "insert_suricata"}
        /\ q.response.status_code \in {403, 200}

\* the rows of mitre_ttps that reference this incident
TtpRowsOf(incident_id) ==
    {i \in 1..Len(ttps) : ttps[i].incident_id = incident_id}

\* the technique ids of the rows of mitre_ttps that reference this incident
TechniquesOf(incident_id) ==
    {ttps[i].technique_id : i \in TtpRowsOf(incident_id)}

(***************************************************************************)
(* C14: when every write of a finished request succeeded, each incident it *)
(* inserted has exactly one TTP row, with T1190, when its rule contains    *)
(* "SQL" in any case; exactly one, with T1059.007, when it contains "XSS"  *)
(* in any case and not "SQL"; and no TTP row otherwise.                    *)
(***************************************************************************)
C14_TtpRowFollowsRuleName ==
    \A r \in Reqs :
        LET q == req[r] IN
        (Finished(q) /\ AllWritesOk(q)) =>
            \A i \in 1..Len(q.trace) :
                LET e == q.trace[i] IN
                e.op = "insert_incident" =>
                    IF Contains(Upper(e.arg), "SQL")
                    THEN /\ Cardinality(TtpRowsOf(e.id)) = 1
                         /\ TechniquesOf(e.id) = {"T1190"}
                    ELSE IF Contains(Upper(e.arg), "XSS")
                    THEN /\ Cardinality(TtpRowsOf(e.id)) = 1
                         /\ TechniquesOf(e.id) = {"T1059.007"}
                    ELSE TtpRowsOf(e.id) = {}

\* an incident whose rule holds both words in lower case was recorded with
\* every write succeeding, and has its T1190 row
C14_Witness ==
    \E r \in Reqs :
        LET q == req[r] IN
        /\ Finished(q) /\ AllWritesOk(q)
        /\ \E i \in 1..Len(q.trace) :
               /\ q.trace[i].op = "insert_incident"
               /\ q.trace[i].arg = "SURICATA sql xss"
               /\ TechniquesOf(q.trace[i].id) = {"T1190"}

\* the task of request r inserted row t of mitre_ttps right after its insert
\* of the incident with this id, in one call of log_incident
SameCall(r, t, incident_id) ==
    \E k \in 2..Len(req[r].trace) :
        /\ req[r].trace[k].op = "insert_ttp"
        /\ req[r].trace[k].res = "ok"
        /\ req[r].trace[k].id = t
        /\ req[r].trace[k - 1].op = "insert_incident"
        /\ req[r].trace[k - 1].res = "ok"
        /\ req[r].trace[k - 1].id = incident_id

(***************************************************************************)
(* C15: in every reachable state every row of mitre_ttps references a row  *)
(* of incidents, the one that the same call of log_incident inserted,      *)
(* under every interleaving of the requests and every pattern of failed    *)
(* writes.                                                                 *)
(***************************************************************************)
C15_TtpReferencesOwnIncident ==
    \A t \in 1..Len(ttps) :
        /\ ttps[t].incident_id \in 1..Len(incidents)
        /\ incidents[ttps[t].incident_id].id = ttps[t].incident_id
        /\ \E r \in Reqs : SameCall(r, ttps[t].id, ttps[t].incident_id)

\* a TTP row was written after another request had inserted an incident
\* between the incident insert and the TTP insert of its call
C15_Witness ==
    \E t \in 1..Len(ttps) :
        /\ ttps[t].incident_id < Len(incidents)
        /\ \E r \in Reqs :
               /\ SameCall(r, ttps[t].id, ttps[t].incident_id)
               /\ req[r].pc = "log_request_error"
               /\ req[r].trace[Len(req[r].trace)].id = ttps[t].id
               /\ \E o \in Reqs \ {r} :
                      /\ req[o].trace # <<>>
                      /\ req[o].trace[Len(req[o].trace)].op = "insert_incident"
                      /\ req[o].trace[Len(req[o].trace)].id = ttps[t].incident_id + 1

(***************************************************************************)
(* C16 as claimed: in every reachable state every row of incidents has a   *)
(* non-empty rule_triggered, whether the middleware or POST /api/incidents *)
(* wrote it.                                                               *)
(***************************************************************************)
C16_RuleTriggeredNonEmpty ==
    \A i \in 1..Len(incidents) :
        incidents[i].rule_triggered \notin {"", None}

\* the path is internal or administrative
InternalPath(path) ==
    \E prefix \in {"/api/", "/admin", "/health"} :
        Len(path) >= Len(prefix) /\ SubSeq(path, 1, Len(prefix)) = prefix

\* the events of the middleware: what the task did before it handed the
\* request to call_next (everything, when it never did)
PipelineEvents(q) ==
    LET handed == {i \in 1..Len(q.trace) : q.trace[i].op = "call_next"}
    IN  IF handed = {} THEN q.trace
        ELSE SubSeq(q.trace, 1, (CHOOSE i \in handed : \A j \in handed : i <= j) - 1)

(***************************************************************************)
(* C17: a request to an internal or administrative path (prefix /api/,     *)
(* /admin or /health) bypasses the pipeline: no signature predicate, regex *)
(* check or RAG call is ever made for it, and the middleware writes no     *)
(* incident and no request row for it; it is handed to its route.          *)
(***************************************************************************)
C17_InternalPathsBypassPipeline ==
    \A r \in Reqs :
        LET q == req[r] IN
        (q.pc # "idle" /\ InternalPath(q.path)) =>
            /\ \A i \in 1..Len(q.trace) :
                   q.trace[i].op \notin {"rule_fn", "check_regex_rules", "rag_post"}
            /\ PipelineEvents(q) = <<>>
            /\ q.pc \notin {"inspect", "rag", "log_request"}
            /\ Finished(q) => q.forwarded

\* a request to /health was answered by its route, and being handed to it
\* is all its task did
C17_Witness ==
    \E r \in Reqs :
        LET q == req[r] IN
        /\ q.path = "/health"
        /\ Finished(q)
        /\ q.response.status_code = 200
        /\ q.trace = <<Ev("call_next", "/health", "", 0)>>

\* the environment of the process does not name the location of the RAG service
LocationAbsent == \A pair \in environ : pair[1] # "RAG_SERVICE_URL"

(***************************************************************************)
(* C18 as claimed: when the location of the RAG service is absent from the *)
(* environment at process start, no request enters the semantic stage or   *)
(* calls the service, and a finished inspected request matching no rule    *)
(* was forwarded.                                                          *)
(***************************************************************************)
C18_AbsentLocationRulesOnly ==
    LocationAbsent =>
        \A r \in Reqs :
            LET q == req[r] IN
            /\ ~SemanticUsed(q)
            /\ (Inspected(q) /\ Finished(q) /\ NoRuleMatches(q.payload)) =>
                    Decision(q) = "ALLOWED"

\* the task ran the rule stages
PastRuleStages(q) == Inspected(q) /\ q.pc # "inspect"

\* the positions in OWASP_RULES of the predicates that are true of payload
SigMatchPositions(payload) ==
    {j \in 1..Len(OWASP_RULES) : rule_fn(OWASP_RULES[j], payload) = "True"}

\* the position of the earliest signature rule that is true of payload
FirstSigMatch(payload) ==
    CHOOSE j \in SigMatchPositions(payload) :
        \A k \in SigMatchPositions(payload) : j <= k

\* the positions of the predicates that raise on payload and come before
\* every predicate that is true of it
RaisingPositions(payload) ==
    {j \in 1..Len(OWASP_RULES) :
        /\ rule_fn(OWASP_RULES[j], payload) = "raise"
        /\ \A k \in SigMatchPositions(payload) : j < k}

(***************************************************************************)
(* C19: when signature rules match the payload, the predicates evaluated   *)
(* are those of the fixed order up to the earliest matching rule and none  *)
(* after it, and the response and the one incident logged name that rule.  *)
(***************************************************************************)
C19_FirstSignatureMatchWins ==
    \A r \in Reqs :
        LET q == req[r] IN
        (PastRuleStages(q) /\ SigMatchPositions(q.payload) # {}) =>
            LET first == FirstSigMatch(q.payload) IN
            /\ Args(q, "rule_fn") = SubSeq(OWASP_RULES, 1, first)
            /\ Args(q, "log_incident") = <<OWASP_RULES[first]>>
            /\ Finished(q) =>
                   q.response = [status_code |-> 403,
                                 detail |-> "Blocked by OWASP rule: "
                                                \o OWASP_RULES[first]]

\* a payload both signature rules match was blocked under the first of them
C19_Witness ==
    \E r \in Reqs :
        LET q == req[r] IN
        /\ Finished(q) /\ Inspected(q)
        /\ Cardinality(SigMatchPositions(q.payload)) > 1
        /\ q.response.detail = "Blocked by OWASP rule: " \o OWASP_RULES[1]
        /\ Calls(q, "rule_fn") = 1

(***************************************************************************)
(* C20: a signature predicate that raises counts as no match and the loop  *)
(* goes on with the next predicate: a later matching signature rule blocks *)
(* the request under its own name, and when none matches the regex stage   *)
(* runs; the error never ends the request.                                 *)
(***************************************************************************)
C20_RaisingPredicateIsNoMatch ==
    \A r \in Reqs :
        LET q == req[r] IN
        (PastRuleStages(q) /\ RaisingPositions(q.payload) # {}) =>
            /\ \A j \in RaisingPositions(q.payload) :
                   /\ Len(EventsOf(q.trace, "rule_fn")) > j
                   /\ EventsOf(q.trace, "rule_fn")[j].res = "raise"
                   /\ EventsOf(q.trace, "rule_fn")[j + 1].arg = OWASP_RULES[j + 1]
            /\ q.raised = ""
            /\ IF SigMatches(q.payload) # {}
               THEN /\ Calls(q, "check_regex_rules") = 0
                    /\ Finished(q) =>
                           /\ q.response.status_code = 403
                           /\ \E n \in SigMatches(q.payload) :
                                  q.response.detail = "Blocked by OWASP rule: " \o n
               ELSE Calls(q, "check_regex_rules") = 1

\* the first predicate raised and the second blocked the request under its
\* own name
C20_Witness ==
    \E r \in Reqs :
        LET q == req[r] IN
        /\ Finished(q) /\ Inspected(q)
        /\ RaisingPositions(q.payload) = {1}
        /\ SigMatchPositions(q.payload) = {2}
        /\ q.response.detail = "Blocked by OWASP rule: " \o OWASP_RULES[2]

(***************************************************************************)
(* mark_incident_handled, run on its own against a table of incidents      *)
(***************************************************************************)
\* the most rows the incidents table starts with
MaxRows == 2

\* the number of calls of mark_incident_handled
MaxCalls == 2

\* the values of the status column
Statuses == {"open", "handled"}

\* the incidents tables the calls start from: rows with their ids in insert
\* order, of either status
IncidentTables ==
    UNION { { [i \in 1..n |->
                 [IncidentRow(i, "10.0.0.1", "'", "SQLInjection")
                     EXCEPT !.status = st[i]]] :
              st \in [1..n -> Statuses] } : n \in 0..MaxRows }

\* UpdateStatusHandled without the WHERE clause
UpdateStatusHandledEveryRow(table, incident_id) ==
    [i \in 1..Len(table) |-> [table[i] EXCEPT !.status = "handled"]]

\* UPDATE incidents SET status = 'handled' WHERE id = :id
UpdateStatusHandled(table, incident_id) ==
    [i \in 1..Len(table) |->
        IF table[i].id = incident_id
        THEN [table[i] EXCEPT !.status = "handled"]
        ELSE table[i]]

InitHandled ==
    /\ environ = {}
    /\ req = [r \in Reqs |-> IdleRequest]
    /\ incidents \in IncidentTables
    /\ requests = <<>>
    /\ ttps = <<>>
    /\ suricata_logs = <<>>
    /\ handled = <<>>
    /\ boot = StartedBoot
    /\ usage = NoUsage

\* mark_incident_handled(incident_id): the UPDATE runs and True is returned, or
\* it raises, the error is logged and False is returned
\* (incident_logger.py 236-244)
MarkIncidentHandled ==
    /\ Len(handled) < MaxCalls
    /\ \E incident_id \in 1..(MaxRows + 1), ok \in BOOLEAN :
          /\ incidents' = IF ok THEN UpdateStatusHandled(incidents, incident_id)
                          ELSE incidents
          /\ handled' = Append(handled,
                            [incident_id |-> incident_id, returned |-> ok,
                             before |-> incidents, after |-> incidents'])
    /\ UNCHANGED <<environ, req, requests, ttps, suricata_logs, boot, usage>>

NextHandled == MarkIncidentHandled

SpecHandled == InitHandled /\ [][NextHandled]_vars

\* call k of mark_incident_handled was given the id of a row of the table
OnExistingId(k) ==
    \E i \in 1..Len(handled[k].before) :
        handled[k].before[i].id = handled[k].incident_id

\* the table after call k is the table before it but for the status of the
\* row with the id of the call, which is handled
OnlyStatusOfIdHandled(k) ==
    LET c == handled[k] IN
    /\ Len(c.after) = Len(c.before)
    /\ \A i \in 1..Len(c.before) :
          IF c.before[i].id = c.incident_id
          THEN c.after[i] = [c.before[i] EXCEPT !.status = "handled"]
          ELSE c.after[i] = c.before[i]

(***************************************************************************)
(* C21 as claimed: every call of mark_incident_handled on an existing id   *)
(* returns true and leaves that incident handled and everything else as it *)
(* was.                                                                    *)
(***************************************************************************)
C21_MarkHandledAlwaysSucceeds ==
    \A k \in 1..Len(handled) :
        OnExistingId(k) =>
            /\ handled[k].returned
            /\ OnlyStatusOfIdHandled(k)

(***************************************************************************)
(* C21: a call of mark_incident_handled on an existing id whose UPDATE     *)
(* succeeds returns true and changes nothing but the status of that        *)
(* incident, which is handled; a later such call on the same id returns    *)
(* true and leaves the table as it found it.  A call whose UPDATE fails    *)
(* returns false and changes nothing.                                      *)
(***************************************************************************)
C21_MarkHandledIdempotent ==
    \A k \in 1..Len(handled) :
        /\ (OnExistingId(k) /\ handled[k].returned) => OnlyStatusOfIdHandled(k)
        /\ ~handled[k].returned => handled[k].after = handled[k].before
        /\ \A j \in 1..(k - 1) :
              (/\ OnExistingId(j) /\ handled[j].returned
               /\ handled[k].incident_id = handled[j].incident_id
               /\ handled[k].returned) =>
                    /\ handled[k].after = handled[k].before
                    /\ \E i \in 1..Len(handled[k].after) :
                          /\ handled[k].after[i].id = handled[k].incident_id
                          /\ handled[k].after[i].status = "handled"

\* an open incident was marked handled twice, both calls returning true, next
\* to another incident that stayed open
C21_Witness ==
    /\ Len(handled) = 2
    /\ handled[1].incident_id = handled[2].incident_id
    /\ handled[1].returned /\ handled[2].returned
    /\ \E i, o \in 1..Len(handled[1].before) :
          /\ handled[1].before[i].id = handled[1].incident_id
          /\ handled[1].before[i].status = "open"
          /\ incidents[i].status = "handled"
          /\ o # i
          /\ incidents[o].status = "open"

(***************************************************************************)
(* startup: database.connect(), then setup_database under tenacity's retry *)
(***************************************************************************)
\* @retry(stop=stop_after_attempt(5), ...)
stop_after_attempt == 5

\* @retry(..., wait=wait_fixed(2)), in seconds
wait_fixed == 2

\* the tables of the CREATE TABLE IF NOT EXISTS statements, in their order
SetupStatements == <<"incidents", "requests", "ttps", "suricata_logs">>

InitStartup ==
    /\ environ \in Environments
    /\ req = [r \in Reqs |-> IdleRequest]
    /\ incidents = <<>>
    /\ requests = <<>>
    /\ ttps = <<>>
    /\ suricata_logs = <<>>
    /\ handled = <<>>
    /\ boot = NewBoot
    /\ usage = NoUsage

\* await database.connect(): it returns and setup_database is called, or it
\* raises into the except clause of startup, which logs and raises
\* (main.py 52-54, 58-60)
Connect ==
    /\ boot.pc = "connect"
    /\ \E ok \in BOOLEAN :
          boot' = IF ok
                  THEN [boot EXCEPT !.pc = "setup", !.connects = @ + 1,
                                    !.attempt_number = 1, !.statement = 1]
                  ELSE [boot EXCEPT !.pc = "fatal", !.connects = @ + 1,
                                    !.failed = "connect"]
    /\ UNCHANGED <<environ, req, incidents, requests, ttps, suricata_logs, handled, usage>>

\* one CREATE TABLE IF NOT EXISTS of setup_database: after the last one
\* startup logs and returns; a statement that raises is logged and raised to
\* the retry, which waits unless this was the last attempt, and then raises to
\* startup (incident_logger.py 68-113, main.py 54-60)
ExecuteStatement ==
    /\ boot.pc = "setup"
    /\ \E ok \in BOOLEAN :
          boot' =
            IF ok
            THEN IF boot.statement = Len(SetupStatements)
                 THEN [boot EXCEPT !.pc = "started",
                                   !.created = @ \cup {SetupStatements[boot.statement]},
                                   !.warned = (RAG_SERVICE_URL = "")]
                 ELSE [boot EXCEPT !.statement = @ + 1,
                                   !.created = @ \cup {SetupStatements[boot.statement]}]
            ELSE IF boot.attempt_number >= stop_after_attempt
                 THEN [boot EXCEPT !.pc = "fatal", !.failed = "setup_database"]
                 ELSE [boot EXCEPT !.pc = "wait"]
    /\ UNCHANGED <<environ, req, incidents, requests, ttps, suricata_logs, handled, usage>>

\* the retry sleeps wait_fixed seconds and calls setup_database again
Wait ==
    /\ boot.pc = "wait"
    /\ boot' = [boot EXCEPT !.pc = "setup", !.slept = @ + wait_fixed,
                            !.attempt_number = @ + 1, !.statement = 1]
    /\ UNCHANGED <<environ, req, incidents, requests, ttps, suricata_logs, handled, usage>>

NextStartup == Connect \/ ExecuteStatement \/ Wait

SpecStartup == InitStartup /\ [][NextStartup]_vars

\* the number of times startup tried the step that ended it
TriesOfFailedStep ==
    IF boot.failed = "connect" THEN boot.connects ELSE boot.attempt_number

(***************************************************************************)
(* C22 as claimed: startup gives up fatally only after the step that the   *)
(* database failed, connecting or creating the tables, was tried           *)
(* stop_after_attempt times with wait_fixed seconds between the tries; and *)
(* startup always ends started or fatal.                                   *)
(***************************************************************************)
C22_StartupRetriesBothSteps ==
    /\ boot.pc = "fatal" =>
          /\ TriesOfFailedStep = stop_after_attempt
          /\ boot.slept = wait_fixed * (stop_after_attempt - 1)
    /\ boot.pc \in {"started", "fatal"} \/ ENABLED NextStartup

(***************************************************************************)
(* get_api_usage, run on its own against a table of requests; time is in   *)
(* whole minutes                                                           *)
(***************************************************************************)
\* the most rows the requests table holds when the series is asked for
MaxUsageRows == 2

\* interval '5 minutes'
BucketMinutes == 5

\* INTERVAL '1 hour', and the minutes of the hour of date_trunc('hour', ...)
HourMinutes == 60

\* the minutes of a day: HH24 starts again at 00
DayMinutes == 1440

\* NOW() at the call: three minutes past midnight of the second day, and half
\* past noon
Nows == {DayMinutes + 3, 750}

\* how long before NOW() a row was written, in minutes
Ages == {0, 4, 8, 59, 60}

Digit(n) == SubSeq("0123456789", n + 1, n + 1)

TwoDigits(n) == Digit(n \div 10) \o Digit(n % 10)

\* to_char(t, 'HH24:MI')
to_char(t) ==
    TwoDigits((t % DayMinutes) \div HourMinutes) \o ":" \o TwoDigits(t % HourMinutes)

\* date_trunc('hour', t) + floor(extract(minute from t) / 5) * interval '5 minutes'
BucketStart(t) ==
    (t - (t % HourMinutes)) + ((t % HourMinutes) \div BucketMinutes) * BucketMinutes

\* the rank of a character of a label in the collation: digits, then ":"
CharRank(c) ==
    CHOOSE k \in 1..11 : SubSeq("0123456789:", k, k) = c

\* text a sorts before text b (both HH24:MI labels)
TextLess(a, b) ==
    \E k \in 1..Len(a) :
        /\ SubSeq(a, 1, k - 1) = SubSeq(b, 1, k - 1)
        /\ CharRank(SubSeq(a, k, k)) < CharRank(SubSeq(b, k, k))

RECURSIVE OrderByTime(_)
\* ORDER BY time: the labels in the order of the text
OrderByTime(labels) ==
    IF labels = {} THEN <<>>
    ELSE LET first == CHOOSE l \in labels :
                         \A m \in labels : l = m \/ TextLess(l, m)
         IN  <<first>> \o OrderByTime(labels \ {first})

\* WHERE timestamp > NOW() - INTERVAL '1 hour': the ids of the rows selected
InLastHour(now, timestamp) ==
    {i \in 1..Len(timestamp) : timestamp[i] > now - HourMinutes}

\* the query and the loop of get_api_usage; bucket, the start of the bucket
\* of the rows of an entry, is not part of what is returned
UsageSeries(table, now, timestamp) ==
    LET rows == InLastHour(now, timestamp)
        label(i) == to_char(BucketStart(timestamp[i]))
        times == OrderByTime({label(i) : i \in rows})
        count(l, status) ==
            Cardinality({i \in rows : label(i) = l /\ table[i].status = status})
    IN  [k \in 1..Len(times) |->
            [time |-> times[k],
             rps |-> count(times[k], "success") + count(times[k], "error"),
             success |-> count(times[k], "success"),
             errors |-> count(times[k], "error"),
             bucket |-> BucketStart(timestamp[
                            CHOOSE i \in rows : label(i) = times[k]])]]

\* the requests tables the series is asked for
RequestTables ==
    UNION { { [i \in 1..n |-> RequestRow(i, st[i], "10.0.0.1")] :
              st \in [1..n -> {"success", "error"}] } : n \in 0..MaxUsageRows }

InitUsage ==
    /\ environ = {}
    /\ req = [r \in Reqs |-> IdleRequest]
    /\ incidents = <<>>
    /\ requests \in RequestTables
    /\ ttps = <<>>
    /\ suricata_logs = <<>>
    /\ handled = <<>>
    /\ boot = StartedBoot
    /\ \E now \in Nows :
          \E age \in [1..Len(requests) -> Ages] :
              usage = [NoUsage EXCEPT
                          !.now = now,
                          !.timestamp = [i \in 1..Len(requests) |-> now - age[i]]]

\* get_api_usage: the query runs and the series is built, or it raises, the
\* error is logged and [] is returned (incident_logger.py 182-208)
GetApiUsage ==
    /\ ~usage.called
    /\ \E ok \in BOOLEAN :
          usage' = [usage EXCEPT
                      !.called = TRUE,
                      !.returned = IF ok
                                   THEN UsageSeries(requests, usage.now, usage.timestamp)
                                   ELSE <<>>]
    /\ UNCHANGED <<environ, req, incidents, requests, ttps, suricata_logs,
                   handled, boot>>

NextUsage == GetApiUsage

SpecUsage == InitUsage /\ [][NextUsage]_vars

\* the entry of the series whose bucket holds minute t
EntriesHolding(t) ==
    {k \in 1..Len(usage.returned) :
        /\ usage.returned[k].bucket <= t
        /\ t < usage.returned[k].bucket + BucketMinutes}

\* the series is in time order, one entry per bucket
InTimeOrder ==
    \A j, k \in 1..Len(usage.returned) :
        j < k => usage.returned[j].bucket < usage.returned[k].bucket

\* every bucket starts on a multiple of five minutes, and its label is that
\* time of day
OnFiveMinuteMarks ==
    \A k \in 1..Len(usage.returned) :
        /\ usage.returned[k].bucket % BucketMinutes = 0
        /\ usage.returned[k].time = to_char(usage.returned[k].bucket)

\* every row of the last hour is counted once, in the bucket that holds its
\* timestamp, and success + errors is the total of each bucket
EveryRowCounted ==
    /\ \A i \in InLastHour(usage.now, usage.timestamp) :
          Cardinality(EntriesHolding(usage.timestamp[i])) = 1
    /\ \A k \in 1..Len(usage.returned) :
          LET e == usage.returned[k]
              held(status) ==
                  Cardinality({i \in InLastHour(usage.now, usage.timestamp) :
                                 /\ k \in EntriesHolding(usage.timestamp[i])
                                 /\ requests[i].status = status})
          IN  /\ e.success = held("success")
              /\ e.errors = held("error")
              /\ e.rps = e.success + e.errors
              /\ e.rps > 0

(***************************************************************************)
(* C23 as claimed: the series get_api_usage returns from its query has one *)
(* entry per 5-minute bucket in time order, every bucket starts on a       *)
(* multiple of 5 minutes, every row of the last hour is counted in the     *)
(* bucket that holds its timestamp, and success + errors is the total.     *)
(***************************************************************************)
C23_UsageSeriesInTimeOrder ==
    (usage.called /\ (usage.returned # <<>> \/ InLastHour(usage.now, usage.timestamp) = {})) =>
        /\ InTimeOrder
        /\ OnFiveMinuteMarks
        /\ EveryRowCounted

(***************************************************************************)
(* C24 as claimed: every request handed to catch_all was inspected first:  *)
(* the signature predicates and the regex check were run on it, the RAG    *)
(* service was asked when it is configured, and the decision was ALLOWED.  *)
(***************************************************************************)
C24_CatchAllOnlyAfterInspection ==
    \A r \in Reqs :
        LET q == req[r] IN
        (q.forwarded /\ Route(q.path) = "catch_all") =>
            /\ Inspected(q)
            /\ Calls(q, "rule_fn") > 0
            /\ Calls(q, "check_regex_rules") = 1
            /\ RAG_SERVICE_URL # "" => Calls(q, "rag_post") = 1
            /\ Decision(q) = "ALLOWED"

(***************************************************************************)
(* C25 as claimed: the two technique mappings agree: whenever a TTP row    *)
(* with technique T was written for an incident of a rule name, every      *)
(* roll-up that get_ttp_data returned gives that rule name the id T, so a  *)
(* rule name it reports as Unknown has no TTP row.                         *)
(***************************************************************************)
C25_TechniqueMappingsAgree ==
    \A r \in Reqs :
        \A k \in 1..Len(req[r].body) :
            \A t \in 1..Len(ttps) :
                incidents[ttps[t].incident_id].rule_triggered = req[r].body[k].name
                    => req[r].body[k].id = ttps[t].technique_id

\* the ids of the rows of requests with this status
RequestRowsWith(status) ==
    {i \in 1..Len(requests) : requests[i].status = status}

\* the task of request r inserted row i of requests, with this status
InsertedRequestRow(r, i, status) ==
    \E k \in 1..Len(req[r].trace) :
        /\ req[r].trace[k].op = "insert_request"
        /\ req[r].trace[k].arg = status
        /\ req[r].trace[k].res = "ok"
        /\ req[r].trace[k].id = i

(***************************************************************************)
(* C26: in every reachable state, whatever the interleaving of inspected   *)
(* requests and intake calls and whichever writes failed, the requests     *)
(* table has no more error rows than the incidents table has rows, and     *)
(* every success row was written by the task of an inspected request that  *)
(* the pipeline ALLOWED: it is being, or has been, forwarded to its        *)
(* handler, and was not blocked.                                           *)
(***************************************************************************)
C26_ErrorRowsBoundedSuccessOnlyAllowed ==
    /\ Cardinality(RequestRowsWith("error")) <= Len(incidents)
    /\ \A i \in RequestRowsWith("success") :
          \E r \in Reqs :
              LET q == req[r] IN
              /\ InsertedRequestRow(r, i, "success")
              /\ Inspected(q)
              /\ Calls(q, "log_incident") = 0
              /\ q.pc = "call_next" \/ (Finished(q) /\ Decision(q) = "ALLOWED")

\* two concurrent tasks: one was blocked, and its incident and its error row
\* were written; the other was allowed and wrote its success row
C26_Witness ==
    /\ Len(incidents) = 1
    /\ Cardinality(RequestRowsWith("error")) = 1
    /\ Cardinality(RequestRowsWith("success")) = 1
    /\ \A r \in Reqs : Finished(req[r])
    /\ \E r \in Reqs : req[r].response.status_code = 403
====
